---- MODULE Spec2Model ----
(***************************************************************************)
(* Course monitoring bot (src/main.js): one monitoring check at a time,    *)
(* from the trigger to the teardown of the browser, with the persisted     *)
(* database file and cookie file (Spec); the pure change detection         *)
(* (SpecDiff); checks that overlap on the shared browser field             *)
(* (SpecOverlap); the validation of the environment at startup             *)
(* (SpecStartup); and the scan of the links of the listing (SpecScan).     *)
(***************************************************************************)
EXTENDS Naturals, Sequences, FiniteSets

VARIABLES
    proc,        \* the long-lived node process: "running", "crashed" or "exited"
    started,     \* start() has run its immediate check
    pc,          \* position of the check() invocation being followed
    browser,     \* this.browser: "null", or the state of the object it references
    cookiesFile, \* cookies.json holds a non-empty cookie list
    database,    \* content of database.json (a missing or unreadable file reads as {})
    items,       \* check(): currentItems
    db,          \* check(): database as returned by readJSON
    actions,     \* check(): actions
    i,           \* processActions: 1-based position of the action in the for-of loop
    image,       \* action.data.image of the action being processed
    sends,       \* history: the fetch() calls of NotificationService.send in this check
    thumbs,      \* history: positions of the actions extractThumbnail was called for
    err,         \* class of the error caught by check(), "none" if none
    wrote,       \* history: this check completed writeJSON(DATABASE_FILE)
    dbAtStart,   \* history: content of database.json when this check was invoked
    escaped,     \* history: a check() promise was rejected (an error left check())
    auth,        \* ensureAuthenticated: what it did, until it returns or once it has thrown
    thumbnail,   \* processActions: value returned by extractThumbnail, "none" if not called
    env,         \* process.env: the names of the variables that are set
    nodes,       \* the links matched by SELECTORS.CONTENT_ITEM, in document order
    checks,      \* overlapping checks: position and browser of each check() in flight
    thisBrowser, \* overlapping checks: the browser this.browser references, 0 for null
    handles      \* overlapping checks: the browsers launched so far

vars == <<proc, started, pc, browser, cookiesFile, database, items, db, actions,
          i, image, sends, thumbs, err, wrote, dbAtStart, escaped, auth, thumbnail,
          env, nodes, checks, thisBrowser, handles>>

Locals == <<items, db, actions, i, image, thumbnail, sends, thumbs, wrote>>
Files == <<cookiesFile, database, dbAtStart>>
Process == <<proc, started, escaped>>
\* State of the specifications of startup, of the listing scan and of
\* overlapping checks, which a check followed alone leaves as it is.
Others == <<env, nodes, checks, thisBrowser, handles>>

\* ---------------------------------------------------------------- data

\* Longest course listing explored by the monitoring specification.
MaxLen == 3
\* Longest item list explored by the change-detection specification.
DiffMaxLen == 3

\* CONTENT_TYPES (the labels stand for the display strings)
CONTENT_VIDEO == "Video"
CONTENT_TEXT == "Text"
CONTENT_QUIZ == "Quiz"
CONTENT_OTHER == "Other"
CONTENT_TYPES == {CONTENT_VIDEO, CONTENT_TEXT, CONTENT_QUIZ, CONTENT_OTHER}

\* EVENT_TYPES
EVENT_NEW == "NEW"
EVENT_UPDATE == "UPDATE"

\* Ids produced by href.match(/\/(\d+)/): strings of digits.
Ids == {"1", "2"}
Titles == {"A", "B"}

\* An item pushed by scrapeContent: { id, title, type } (url is id's link).
Items(titles, types) == [id : Ids, title : titles, type : types]

RECURSIVE SeqsUpTo(_, _)
SeqsUpTo(S, n) ==
    IF n = 0 THEN {<<>>}
    ELSE LET shorter == SeqsUpTo(S, n - 1)
         IN  shorter \cup {Append(s, x) : s \in {t \in shorter : Len(t) = n - 1}, x \in S}

\* The database object: id -> { title, type }, for some ids.
EmptyDatabase == [k \in {} |-> [title |-> "A", type |-> CONTENT_TEXT]]
Databases(titles, types) ==
    UNION {[D -> [title : titles, type : types]] : D \in SUBSET Ids}

\* Object.keys(database).length === 0
isFirstRun(database_) == DOMAIN database_ = {}


\* Course listings the monitoring specification lets the page show: ids may
\* repeat, since scrapeContent pushes one item per matching link.
PageTitles == {"A"}
PageTypes == {CONTENT_TEXT, CONTENT_VIDEO, CONTENT_QUIZ}
Listings == SeqsUpTo(Items(PageTitles, PageTypes), MaxLen)

\* Inputs of the change-detection specification: every content type, and stored
\* titles that may differ from the current one.
DiffItems == Items(PageTitles, CONTENT_TYPES)
DiffLists == SeqsUpTo(DiffItems, DiffMaxLen)
DiffDatabases == Databases(Titles, CONTENT_TYPES)

\* ------------------------------------------------------- change detection

\* Mutant of detectItem: any change of type is reported as an update.
detectItemAnyChange(item, database_) ==
    IF item.id \notin DOMAIN database_
    THEN <<[type |-> EVENT_NEW, data |-> item]>>
    ELSE IF database_[item.id].type # item.type
         THEN <<[type |-> EVENT_UPDATE, data |-> item]>>
         ELSE <<>>

\* Body of the for-of loop of detectChanges: the actions pushed for one item.
detectItem(item, database_) ==
    IF item.id \notin DOMAIN database_
    THEN <<[type |-> EVENT_NEW, data |-> item]>>
    ELSE IF /\ database_[item.id].type # item.type
            /\ database_[item.id].type = CONTENT_TEXT
            /\ item.type = CONTENT_VIDEO
         THEN <<[type |-> EVENT_UPDATE, data |-> item]>>
         ELSE <<>>

\* Mutant of detectFrom: the actions are collected with unshift instead of push.
RECURSIVE detectFromReversed(_, _, _)
detectFromReversed(currentItems, database_, n) ==
    IF n = 0 THEN <<>>
    ELSE detectItem(currentItems[n], database_) \o detectFromReversed(currentItems, database_, n - 1)

RECURSIVE detectFrom(_, _, _)
detectFrom(currentItems, database_, n) ==
    IF n = 0 THEN <<>>
    ELSE detectFrom(currentItems, database_, n - 1) \o detectItem(currentItems[n], database_)

\* Mutant of detectChanges: the first-run suppression is done in the detector.
detectChangesQuietFirstRun(currentItems, database_) ==
    IF isFirstRun(database_) THEN <<>>
    ELSE detectFrom(currentItems, database_, Len(currentItems))

\* ChangeDetector.detectChanges(currentItems, database)
detectChanges(currentItems, database_) ==
    detectFrom(currentItems, database_, Len(currentItems))

\* database[item.id] = { title: item.title, type: item.type }
putItem(database_, item) ==
    [k \in DOMAIN database_ \cup {item.id} |->
        IF k = item.id THEN [title |-> item.title, type |-> item.type]
        ELSE database_[k]]

RECURSIVE updateFrom(_, _)
updateFrom(items_, n) ==
    IF n = 0 THEN EmptyDatabase
    ELSE putItem(updateFrom(items_, n - 1), items_[n])

\* Mutant of updateDatabase: the items are merged into the stored database.
RECURSIVE mergeFrom(_, _)
mergeFrom(items_, n) ==
    IF n = 0 THEN database
    ELSE putItem(mergeFrom(items_, n - 1), items_[n])

updateDatabaseMerging(items_) == mergeFrom(items_, Len(items_))

\* ChangeDetector.updateDatabase(items)
updateDatabase(items_) == updateFrom(items_, Len(items_))

\* ------------------------------------------------------------ the check

\* The names validateEnvironment requires, and the one more CONFIG reads.
RequiredEnv == {"DISCORD_WEBHOOK", "THINKIFIC_EMAIL", "THINKIFIC_PASSWORD",
                "COURSE_LOGIN_URL", "COURSE_CONTENTS_URL", "COURSE_BASE_URL",
                "DEFAULT_THUMBNAIL"}
EnvNames == RequiredEnv \cup {"BASE_URL"}

\* Checks that can be in flight together in the specification of overlapping
\* checks, and browsers it lets the process launch.
MaxInFlight == 2
MaxBrowsers == 3
Slots == 1..MaxInFlight

\* ensureAuthenticated has not run in this check.
NoAuth == [before |-> FALSE, location |-> "blank", loaded |-> FALSE, probed |-> FALSE,
           valid |-> FALSE, logins |-> 0, login |-> "none", saved |-> FALSE,
           session |-> FALSE]

\* No check() in flight, no browser launched.
NoChecks == [c \in Slots |-> [pc |-> "idle", mine |-> 0]]

\* The variables a specification does not use, at rest.
OthersAtRest ==
    /\ env = EnvNames
    /\ nodes = <<>>
    /\ checks = NoChecks
    /\ thisBrowser = 0
    /\ handles = <<>>

Init ==
    /\ proc = "running"
    /\ started = FALSE
    /\ pc = "idle"
    /\ browser = "null"
    /\ cookiesFile \in BOOLEAN
    /\ database = EmptyDatabase
    /\ items = <<>>
    /\ db = EmptyDatabase
    /\ actions = <<>>
    /\ i = 0
    /\ image = "default"
    /\ sends = <<>>
    /\ thumbs = {}
    /\ err = "none"
    /\ wrote = FALSE
    /\ dbAtStart = EmptyDatabase
    /\ escaped = FALSE
    /\ auth = NoAuth
    /\ thumbnail = "none"
    /\ OthersAtRest

\* check() is entered: its locals are fresh, this.browser is what the last check left.
EnterCheck ==
    /\ pc' = "launch"
    /\ items' = <<>>
    /\ db' = EmptyDatabase
    /\ actions' = <<>>
    /\ i' = 0
    /\ image' = "default"
    /\ sends' = <<>>
    /\ thumbs' = {}
    /\ err' = "none"
    /\ wrote' = FALSE
    /\ dbAtStart' = database
    /\ escaped' = FALSE
    /\ auth' = NoAuth
    /\ thumbnail' = "none"
    /\ UNCHANGED <<proc, browser, cookiesFile, database, Others>>

\* start(): "Run immediately".
Start ==
    /\ proc = "running" /\ ~started /\ pc = "idle"
    /\ started' = TRUE
    /\ EnterCheck

\* cron.schedule callback, followed once the previous check has returned.
Tick ==
    /\ proc = "running" /\ started /\ pc = "idle"
    /\ UNCHANGED started
    /\ EnterCheck

\* The error is thrown inside the try block: control goes to the catch clause.
Throw(class) ==
    /\ err' = class
    /\ pc' = "catch"


\* this.browser = await puppeteer.launch(...)
Launch ==
    /\ proc = "running" /\ pc = "launch"
    /\ \/ /\ browser' = "open"
          /\ pc' = "newPage"
          /\ UNCHANGED err
       \/ /\ Throw("launch")
          /\ UNCHANGED browser
    /\ UNCHANGED <<Locals, Files, Process, auth, Others>>

\* const page = await this.browser.newPage()
NewPage ==
    /\ proc = "running" /\ pc = "newPage"
    /\ \/ pc' = "auth" /\ UNCHANGED err
       \/ Throw("launch")
    /\ UNCHANGED <<browser, Locals, Files, Process, auth, Others>>

\* Where page.goto(COURSE_URL) of isSessionValid can end: on the course page,
\* redirected to the sign_in page, or with a navigation error.
ProbeOutcomes == {"content", "login", "error"}

\* How login(page) can end: "ok" (the page left sign_in and the cookies were
\* written), "rejected" (the page is still on sign_in after the submit),
\* "error" (a goto, type or click threw), "unsaved" (writeJSON of the cookies
\* threw).
LoginOutcomes == {"ok", "rejected", "error", "unsaved"}

\* Mutant of loginWrites: the cookies are saved before the sign_in test.
loginWritesEarly(login) == login \in {"ok", "rejected"}

\* login(): writeJSON(COOKIES_FILE, cookies) is reached and succeeds.
loginWrites(login) == login = "ok"

\* Mutant of needsLoginAfter: a login is made whenever cookies were loaded late
\* or not at all, whatever the probe says.
needsLoginAlways(cookiesLoaded, sessionValid) == TRUE

\* ensureAuthenticated, lines 216-227: needsLogin once the cookies and the
\* session have been tried.
needsLoginAfter(cookiesLoaded, sessionValid) == ~(cookiesLoaded /\ sessionValid)

\* AuthenticationManager.ensureAuthenticated(page): readable = loadCookies read
\* the cookie file and set the cookies, probe = outcome of isSessionValid (run
\* only when the cookies were loaded), login = outcome of login(), nav = the
\* goto(COURSE_URL) after login succeeded. The site sends a page to sign_in
\* exactly when its session is not authenticated.
ensureAuthenticated(readable, probe, login, nav) ==
    LET cookiesLoaded == cookiesFile /\ readable
        sessionValid == cookiesLoaded /\ probe = "content"
        needsLogin == needsLoginAfter(cookiesLoaded, sessionValid)
        afterProbe == IF cookiesLoaded /\ probe # "error" THEN probe ELSE "blank"
        did == [before |-> cookiesFile, location |-> afterProbe, loaded |-> cookiesLoaded,
                probed |-> cookiesLoaded, valid |-> sessionValid,
                logins |-> IF needsLogin THEN 1 ELSE 0,
                login |-> IF needsLogin THEN login ELSE "none",
                saved |-> needsLogin /\ loginWrites(login),
                session |-> sessionValid \/ (needsLogin /\ login \in {"ok", "unsaved"})]
    IN  IF ~needsLogin
        THEN /\ auth' = [did EXCEPT !.location = afterProbe]
             /\ pc' = "authenticated"
             /\ UNCHANGED <<err, cookiesFile>>
        ELSE /\ cookiesFile' \in IF loginWrites(login) THEN {TRUE}
                                 ELSE IF login = "unsaved" THEN {cookiesFile, FALSE}
                                 ELSE {cookiesFile}
             /\ IF login = "ok" /\ nav
                THEN /\ auth' = [did EXCEPT !.location =
                                    IF did.session THEN "content" ELSE "login"]
                     /\ pc' = "authenticated"
                     /\ UNCHANGED err
                ELSE /\ auth' = [did EXCEPT !.location =
                                    IF login = "error" THEN afterProbe
                                    ELSE IF login = "rejected" THEN "login" ELSE "home"]
                     /\ Throw("auth")

Authenticate ==
    /\ proc = "running" /\ pc = "auth"
    /\ \E readable \in BOOLEAN, probe \in ProbeOutcomes, login \in LoginOutcomes,
          nav \in BOOLEAN :
          ensureAuthenticated(readable, probe, login, nav)
    /\ UNCHANGED <<browser, Locals, database, dbAtStart, Process, Others>>

\* ensureAuthenticated returns to check(): its locals are gone, the page is on
\* the course page.
AuthenticateReturns ==
    /\ proc = "running" /\ pc = "authenticated"
    /\ auth' = NoAuth
    /\ pc' = "scrape"
    /\ UNCHANGED <<browser, Locals, err, Files, Process, Others>>

\* const currentItems = await ContentScraper.scrapeContent(page)
Scrape ==
    /\ proc = "running" /\ pc = "scrape"
    /\ \/ /\ \E listing \in Listings : items' = listing
          /\ pc' = "read"
          /\ UNCHANGED err
       \/ /\ Throw("extract")
          /\ UNCHANGED items
    /\ UNCHANGED <<browser, db, actions, i, image, thumbnail, sends, thumbs, wrote, Files, Process, auth, Others>>

\* Where check() goes once the actions are known (lines 510-523).
afterDetect(actions_, database_) ==
    IF Len(actions_) > 0
    THEN IF isFirstRun(database_) THEN "write" ELSE "dispatch"
    ELSE "finally"

\* Mutant of ReadAndDetect: the database is written as soon as changes are
\* detected, before the notifications are sent.
ReadDetectAndCommit ==
    /\ proc = "running" /\ pc = "read"
    /\ db' = database
    /\ actions' = detectChanges(items, database)
    /\ pc' = afterDetect(detectChanges(items, database), database)
    /\ i' = IF afterDetect(detectChanges(items, database), database) = "dispatch" THEN 1 ELSE 0
    /\ database' = IF Len(detectChanges(items, database)) > 0
                   THEN updateDatabase(items) ELSE database
    /\ UNCHANGED <<browser, items, image, thumbnail, sends, thumbs, wrote, err, cookiesFile,
                   dbAtStart, Process, auth, Others>>

\* readJSON(DATABASE_FILE), detectChanges and the branch on actions.length and
\* isFirstRun. A failed read returns {}.
ReadAndDetect ==
    /\ proc = "running" /\ pc = "read"
    /\ \E read \in {database, EmptyDatabase} :
          /\ db' = read
          /\ actions' = detectChanges(items, read)
          /\ pc' = afterDetect(detectChanges(items, read), read)
          /\ i' = IF afterDetect(detectChanges(items, read), read) = "dispatch" THEN 1 ELSE 0
    /\ UNCHANGED <<browser, items, image, thumbnail, sends, thumbs, wrote, err, Files, Process, auth, Others>>

\* processActions: the loop is over, control returns to check().
DispatchDone ==
    /\ proc = "running" /\ pc = "dispatch"
    /\ i > Len(actions)
    /\ pc' = "write"
    /\ UNCHANGED <<browser, Locals, err, Files, Process, auth, Others>>

\* How the lookup of a thumbnail can go: the page has a thumbnailUrl, it has
\* none, page.goto threw, or frame.evaluate threw.
ThumbnailOutcomes == {"found", "absent", "navigation error", "frame error"}

\* ContentScraper.extractThumbnail: the thumbnail, or null on any error and
\* when no frame has the field.
extractThumbnail(outcome) == IF outcome = "found" THEN "thumbnail" ELSE "null"

\* Mutant of imageOf: the thumbnail found is dropped.
imageOfDefault(thumbnail_) == "default"

\* processActions, lines 467 and 471-474: the default image unless the lookup
\* returned a truthy value.
imageOf(thumbnail_) == IF thumbnail_ \in {"none", "null"} THEN "default" ELSE thumbnail_

\* Mutant of PrepareAction: the thumbnails of all video actions are fetched
\* when the first action is prepared.
PrepareAllThumbnails ==
    /\ proc = "running" /\ pc = "dispatch"
    /\ i <= Len(actions)
    /\ thumbs' = thumbs \cup {n \in 1..Len(actions) : actions[n].data.type = CONTENT_VIDEO}
    /\ \E outcome \in ThumbnailOutcomes : thumbnail' = extractThumbnail(outcome)
    /\ image' = imageOf(thumbnail')
    /\ pc' = "send"
    /\ UNCHANGED <<browser, items, db, actions, i, sends, wrote, err, Files, Process, auth, Others>>

\* processActions, lines 467-475: the default image, and for a video the
\* thumbnail lookup, which returns a thumbnail or null and never throws.
PrepareAction ==
    /\ proc = "running" /\ pc = "dispatch"
    /\ i <= Len(actions)
    /\ IF actions[i].data.type = CONTENT_VIDEO
       THEN /\ thumbs' = thumbs \cup {i}
            /\ \E outcome \in ThumbnailOutcomes : thumbnail' = extractThumbnail(outcome)
       ELSE /\ thumbnail' = "none"
            /\ UNCHANGED thumbs
    /\ image' = imageOf(thumbnail')
    /\ pc' = "send"
    /\ UNCHANGED <<browser, items, db, actions, i, sends, wrote, err, Files, Process, auth, Others>>

\* Mutant of SendOk: send is called without await, the loop goes on while the
\* request is in flight.
SendNotAwaited ==
    /\ proc = "running" /\ pc = "send"
    /\ i' = i + 1
    /\ pc' = "dispatch"
    /\ UNCHANGED <<browser, items, db, actions, image, thumbnail, sends, thumbs, wrote, err, Files, Process, auth, Others>>

\* NotificationService.send answered 2xx, then sleep(NOTIFICATION_DELAY).
SendOk ==
    /\ proc = "running" /\ pc = "send"
    /\ sends' = Append(sends, [k |-> i, ok |-> TRUE])
    /\ i' = i + 1
    /\ pc' = "dispatch"
    /\ UNCHANGED <<browser, items, db, actions, image, thumbnail, thumbs, wrote, err, Files, Process, auth, Others>>

\* Mutant of SendFailed: the error is logged and not rethrown, the loop goes on.
SendFailedSwallowed ==
    /\ proc = "running" /\ pc = "send"
    /\ sends' = Append(sends, [k |-> i, ok |-> FALSE])
    /\ i' = i + 1
    /\ pc' = "dispatch"
    /\ UNCHANGED <<browser, items, db, actions, image, thumbnail, thumbs, wrote, err, Files, Process, auth, Others>>

\* NotificationService.send: fetch failed or !response.ok; the error is rethrown.
SendFailed ==
    /\ proc = "running" /\ pc = "send"
    /\ sends' = Append(sends, [k |-> i, ok |-> FALSE])
    /\ Throw("notify")
    /\ UNCHANGED <<browser, items, db, actions, i, image, thumbnail, thumbs, wrote, Files, Process, auth, Others>>

\* writeJSON(DATABASE_FILE, updateDatabase(currentItems)) succeeded.
WriteDatabase ==
    /\ proc = "running" /\ pc = "write"
    /\ database' = updateDatabase(items)
    /\ wrote' = TRUE
    /\ pc' = "finally"
    /\ UNCHANGED <<browser, items, db, actions, i, image, thumbnail, sends, thumbs, err,
                   cookiesFile, dbAtStart, Process, auth, Others>>

\* Mutant of WriteFailed: writeJSON logs the error and does not rethrow it.
WriteFailedSilently ==
    /\ proc = "running" /\ pc = "write"
    /\ database' \in {database, EmptyDatabase}
    /\ pc' = "finally"
    /\ UNCHANGED <<browser, Locals, err, cookiesFile, dbAtStart, Process, auth, Others>>

\* fs.writeFile failed: the file is as before, or truncated (it then reads as {}).
WriteFailed ==
    /\ proc = "running" /\ pc = "write"
    /\ database' \in {database, EmptyDatabase}
    /\ Throw("storage")
    /\ UNCHANGED <<browser, Locals, cookiesFile, dbAtStart, Process, auth, Others>>

\* catch (error) { log(...) }
Catch ==
    /\ proc = "running" /\ pc = "catch"
    /\ pc' = "finally"
    /\ UNCHANGED <<browser, Locals, err, Files, Process, auth, Others>>

\* finally: this.browser is null (no browser was ever launched), check() returns.
FinallySkip ==
    /\ proc = "running" /\ pc = "finally"
    /\ browser = "null"
    /\ pc' = "idle"
    /\ UNCHANGED <<browser, Locals, err, Files, Process, auth, Others>>

\* finally: await this.browser.close() resolved, check() returns.
FinallyClose ==
    /\ proc = "running" /\ pc = "finally"
    /\ browser # "null"
    /\ browser' = "closed"
    /\ pc' = "idle"
    /\ UNCHANGED <<Locals, err, Files, Process, auth, Others>>

\* finally: await this.browser.close() rejected. The finally block has no
\* handler, so the promise of check() is rejected; start() and the cron
\* callback do not handle it, and node ends the process on an unhandled
\* rejection unless it is run with --unhandled-rejections=warn.
FinallyThrows ==
    /\ proc = "running" /\ pc = "finally"
    /\ browser # "null"
    /\ browser' \in {browser, "closed"}
    /\ escaped' = TRUE
    /\ proc' \in {"running", "crashed"}
    /\ pc' = "idle"
    /\ UNCHANGED <<started, Locals, err, Files, auth, Others>>

Next ==
    \/ Start
    \/ Tick
    \/ Launch
    \/ NewPage
    \/ Authenticate
    \/ AuthenticateReturns
    \/ Scrape
    \/ ReadAndDetect
    \/ DispatchDone
    \/ PrepareAction
    \/ SendOk
    \/ SendFailed
    \/ WriteDatabase
    \/ WriteFailed
    \/ Catch
    \/ FinallySkip
    \/ FinallyClose
    \/ FinallyThrows

Spec == Init /\ [][Next]_vars


\* --------------------------------------- change detection on its own

\* detectChanges applied to any item list and any stored database.
DiffInit ==
    /\ proc = "running"
    /\ started = FALSE
    /\ pc = "diff"
    /\ browser = "null"
    /\ cookiesFile = FALSE
    /\ database = EmptyDatabase
    /\ items \in DiffLists
    /\ db \in DiffDatabases
    /\ actions = <<>>
    /\ i = 0
    /\ image = "default"
    /\ sends = <<>>
    /\ thumbs = {}
    /\ err = "none"
    /\ wrote = FALSE
    /\ dbAtStart = EmptyDatabase
    /\ escaped = FALSE
    /\ auth = NoAuth
    /\ thumbnail = "none"
    /\ OthersAtRest

\* const actions = ChangeDetector.detectChanges(currentItems, database)
Diff ==
    /\ pc = "diff"
    /\ actions' = detectChanges(items, db)
    /\ pc' = "diffed"
    /\ UNCHANGED <<proc, started, browser, cookiesFile, database, items, db, i, image,
                   sends, thumbs, err, wrote, dbAtStart, escaped, auth, thumbnail, Others>>

SpecDiff == DiffInit /\ [][Diff]_vars


\* ------------------------------------------------------ overlapping checks

\* The variables of the check followed alone.
Single == <<pc, browser, cookiesFile, database, items, db, actions, i, image, thumbnail,
            sends, thumbs, err, wrote, dbAtStart, escaped, auth>>

\* start() and the cron callback call this.check() without awaiting it and
\* without looking at the checks in flight: what is followed here is, for each
\* check() in flight, how far it is (launch, inside the try block, finally)
\* and the browser it launched, with the one field this.browser they share.
OverlapInit ==
    /\ proc = "running"
    /\ started = FALSE
    /\ pc = "overlap"
    /\ browser = "null"
    /\ cookiesFile = FALSE
    /\ database = EmptyDatabase
    /\ items = <<>>
    /\ db = EmptyDatabase
    /\ actions = <<>>
    /\ i = 0
    /\ image = "default"
    /\ sends = <<>>
    /\ thumbs = {}
    /\ err = "none"
    /\ wrote = FALSE
    /\ dbAtStart = EmptyDatabase
    /\ escaped = FALSE
    /\ auth = NoAuth
    /\ thumbnail = "none"
    /\ OthersAtRest

\* this.check() is called: a new invocation begins.
enterCheck(c) ==
    /\ checks[c].pc = "idle"
    /\ checks' = [checks EXCEPT ![c] = [pc |-> "launch", mine |-> 0]]

\* start(): "Run immediately".
StartOverlapping ==
    /\ ~started
    /\ started' = TRUE
    /\ \E c \in Slots : enterCheck(c)
    /\ UNCHANGED <<proc, Single, env, nodes, thisBrowser, handles>>

\* cron.schedule callback: this.check(), whatever the earlier checks are doing.
TickOverlapping ==
    /\ started
    /\ \E c \in Slots : enterCheck(c)
    /\ UNCHANGED <<proc, started, Single, env, nodes, thisBrowser, handles>>

\* this.browser = await puppeteer.launch(...): the new browser is stored in
\* the shared field, over the reference an earlier check stored; or launch
\* throws and control goes through catch to finally.
LaunchOverlapping(c) ==
    /\ checks[c].pc = "launch"
    /\ \/ /\ Len(handles) < MaxBrowsers
          /\ handles' = Append(handles, [open |-> TRUE, over |-> FALSE])
          /\ thisBrowser' = Len(handles) + 1
          /\ checks' = [checks EXCEPT ![c] = [pc |-> "try", mine |-> Len(handles) + 1]]
       \/ /\ checks' = [checks EXCEPT ![c].pc = "finally"]
          /\ UNCHANGED <<thisBrowser, handles>>
    /\ UNCHANGED <<proc, started, Single, env, nodes>>

\* The rest of the try block, up to its end or to an error and the catch clause.
WorkOverlapping(c) ==
    /\ checks[c].pc = "try"
    /\ checks' = [checks EXCEPT ![c].pc = "finally"]
    /\ UNCHANGED <<proc, started, Single, env, nodes, thisBrowser, handles>>

\* The browsers once this.browser.close() has run on the browser referenced.
closeThisBrowser ==
    IF thisBrowser = 0 THEN handles
    ELSE [handles EXCEPT ![thisBrowser].open = FALSE]

\* finally { if (this.browser) await this.browser.close() }, and check() returns.
FinallyOverlapping(c) ==
    /\ checks[c].pc = "finally"
    /\ handles' = IF checks[c].mine = 0 THEN closeThisBrowser
                  ELSE [closeThisBrowser EXCEPT ![checks[c].mine].over = TRUE]
    /\ checks' = [checks EXCEPT ![c] = [pc |-> "idle", mine |-> 0]]
    /\ UNCHANGED <<proc, started, Single, env, nodes, thisBrowser>>

NextOverlap ==
    \/ StartOverlapping
    \/ TickOverlapping
    \/ \E c \in Slots : LaunchOverlapping(c)
    \/ \E c \in Slots : WorkOverlapping(c)
    \/ \E c \in Slots : FinallyOverlapping(c)

SpecOverlap == OverlapInit /\ [][NextOverlap]_vars


\* ------------------------------------------------------------------ startup

\* CONFIG (lines 20-27): for each value read from the environment, whether
\* it is defined.
CONFIG(env_) ==
    [WEBHOOK_URL |-> "DISCORD_WEBHOOK" \in env_,
     THINKIFIC_EMAIL |-> "THINKIFIC_EMAIL" \in env_,
     THINKIFIC_PASSWORD |-> "THINKIFIC_PASSWORD" \in env_,
     LOGIN_URL |-> "COURSE_LOGIN_URL" \in env_,
     COURSE_URL |-> "COURSE_CONTENTS_URL" \in env_,
     COURSE_BASE_URL |-> "BASE_URL" \in env_,
     DEFAULT_THUMBNAIL |-> "DEFAULT_THUMBNAIL" \in env_]

\* validateEnvironment: required.filter(key => !process.env[key])
missing(env_) == RequiredEnv \ env_

\* The process is started with any of the variables set or not.
StartupInit ==
    /\ proc = "running"
    /\ started = FALSE
    /\ pc = "main"
    /\ browser = "null"
    /\ cookiesFile = FALSE
    /\ database = EmptyDatabase
    /\ items = <<>>
    /\ db = EmptyDatabase
    /\ actions = <<>>
    /\ i = 0
    /\ image = "default"
    /\ sends = <<>>
    /\ thumbs = {}
    /\ err = "none"
    /\ wrote = FALSE
    /\ dbAtStart = EmptyDatabase
    /\ escaped = FALSE
    /\ auth = NoAuth
    /\ thumbnail = "none"
    /\ env \in SUBSET EnvNames
    /\ nodes = <<>>
    /\ checks = NoChecks
    /\ thisBrowser = 0
    /\ handles = <<>>

\* main(): validateEnvironment throws, the error is logged, process.exit(1).
MainExits ==
    /\ proc = "running" /\ pc = "main"
    /\ missing(env) # {}
    /\ proc' = "exited"
    /\ pc' = "exit"
    /\ UNCHANGED <<started, browser, Locals, err, Files, escaped, auth, Others>>

\* main(): validateEnvironment returns, the monitor is built and start() is
\* called (its immediate check is the action Start).
MainStarts ==
    /\ proc = "running" /\ pc = "main"
    /\ missing(env) = {}
    /\ pc' = "idle"
    /\ UNCHANGED <<browser, Locals, err, Files, Process, auth, Others>>

NextStartup ==
    \/ MainExits
    \/ MainStarts
    \/ Start

SpecStartup == StartupInit /\ [][NextStartup]_vars


\* ------------------------------------------------- the scan of the listing

\* Longest href and longest list of links explored by the scan specification.
HrefMaxLen == 3
NodeMaxLen == 2

\* The characters of an href: a slash, a digit, a character that is neither.
Digits == {"1"}
Chars == {"/", "a"} \cup Digits

\* A link matched by SELECTORS.COURSE_ITEM: its href attribute, if it has one.
NoHref == [has |-> FALSE, href |-> <<>>]
Nodes == {NoHref} \cup {[has |-> TRUE, href |-> h] : h \in SeqsUpTo(Chars, HrefMaxLen)}

\* \d+ applied at position k: the digits from k up to the first non-digit.
RECURSIVE digitsFrom(_, _)
digitsFrom(href, k) ==
    IF k > Len(href) \/ href[k] \notin Digits THEN <<>>
    ELSE <<href[k]>> \o digitsFrom(href, k + 1)

\* Mutant of matchId: the pattern is /(\d+)/, the first digits wherever they are.
matchAnyDigits(href) ==
    LET at == {k \in 1..Len(href) : href[k] \in Digits}
    IN  IF at = {} THEN <<>>
        ELSE digitsFrom(href, CHOOSE k \in at : \A j \in at : k <= j)

\* href.match(/\/(\d+)/): the group captured by the leftmost match, <<>> when
\* there is no match.
matchId(href) ==
    LET at == {k \in 1..Len(href) : /\ href[k] = "/"
                                    /\ k < Len(href)
                                    /\ href[k + 1] \in Digits}
    IN  IF at = {} THEN <<>>
        ELSE digitsFrom(href, (CHOOSE k \in at : \A j \in at : k <= j) + 1)

\* Body of the each() callback of scrapeContent for one link: the items it
\* pushes (here an item is its id and its href; title and type are set from
\* other parts of the link).
scrapeNode(node) ==
    IF ~node.has \/ node.href = <<>> \/ matchId(node.href) = <<>> THEN <<>>
    ELSE <<[id |-> matchId(node.href), href |-> node.href]>>

RECURSIVE scrapeFrom(_, _)
scrapeFrom(nodes_, n) ==
    IF n = 0 THEN <<>>
    ELSE scrapeFrom(nodes_, n - 1) \o scrapeNode(nodes_[n])

\* ContentScraper.scrapeContent, lines 321-348, over the links of the page.
scrapeContent(nodes_) == scrapeFrom(nodes_, Len(nodes_))

\* The page shows any list of links.
ScanInit ==
    /\ proc = "running"
    /\ started = FALSE
    /\ pc = "scan"
    /\ browser = "null"
    /\ cookiesFile = FALSE
    /\ database = EmptyDatabase
    /\ items = <<>>
    /\ db = EmptyDatabase
    /\ actions = <<>>
    /\ i = 0
    /\ image = "default"
    /\ sends = <<>>
    /\ thumbs = {}
    /\ err = "none"
    /\ wrote = FALSE
    /\ dbAtStart = EmptyDatabase
    /\ escaped = FALSE
    /\ auth = NoAuth
    /\ thumbnail = "none"
    /\ env = EnvNames
    /\ \E n \in 0..NodeMaxLen : nodes \in [1..n -> Nodes]
    /\ checks = NoChecks
    /\ thisBrowser = 0
    /\ handles = <<>>

\* const currentItems = await ContentScraper.scrapeContent(page)
Scan ==
    /\ pc = "scan"
    /\ items' = scrapeContent(nodes)
    /\ pc' = "scanned"
    /\ UNCHANGED <<proc, started, browser, cookiesFile, database, db, actions, i, image,
                   thumbnail, sends, thumbs, err, wrote, dbAtStart, escaped, auth, Others>>

SpecScan == ScanInit /\ [][Scan]_vars


\* ------------------------------------------------------------- properties

\* A check the code treats as a first run: the database it read has no keys
\* (a failed read returns {} and so counts as one).
Bootstrap == isFirstRun(db)

\* The check has changed database.json.
CatalogWritten == wrote \/ database # dbAtStart

\* Every action of the check was sent, in order, each with a success response.
AllSent ==
    /\ Len(sends) = Len(actions)
    /\ \A n \in 1..Len(sends) : sends[n] = [k |-> n, ok |-> TRUE]

\* C1 (as amended): in a check that read a non-empty database, the database
\* file is written only after every detected action has been sent to the
\* webhook and answered with success; no state has the file written by such a
\* check with an action unsent or answered with a failure.
C1_CommitOnlyAfterAllSent ==
    (~Bootstrap /\ CatalogWritten) => AllSent

\* C1 (as claimed): the same of every check that began with a non-empty
\* database file.
C1_Original ==
    (dbAtStart # EmptyDatabase /\ CatalogWritten) => AllSent

C1_Witness ==
    /\ ~Bootstrap /\ wrote /\ pc = "idle"
    /\ Len(actions) = 3
    /\ database # dbAtStart

\* C2: when the k-th send of a check is the first to fail, exactly k sends have
\* been attempted (the first k-1 answered with success), no thumbnail was
\* fetched for a later action, the error is the one check() catches, and the
\* check does not write the database file.
C2_FailFast ==
    /\ (\E n \in 1..Len(sends) : ~sends[n].ok) => err = "notify"
    /\ err = "notify" =>
          \E k \in 1..Len(actions) :
             /\ Len(sends) = k
             /\ \A n \in 1..(k - 1) : sends[n] = [k |-> n, ok |-> TRUE]
             /\ sends[k] = [k |-> k, ok |-> FALSE]
             /\ i = k
             /\ thumbs \subseteq 1..k
             /\ ~CatalogWritten
             /\ pc \in {"catch", "finally", "idle"}

C2_Witness ==
    /\ err = "notify" /\ pc = "idle"
    /\ Len(actions) = 3 /\ Len(sends) = 2
    /\ actions[3].data.type = CONTENT_VIDEO
    /\ 1 \in thumbs

\* C3: a check that ended with an authentication, extraction or notification
\* error has left database.json as it was when the check began, so detection
\* over the same listing against the stored database yields the same actions
\* in the same order.
C3_FailedCheckKeepsCatalog ==
    (pc = "idle" /\ err \in {"auth", "extract", "notify"}) =>
        /\ database = dbAtStart
        /\ ~wrote
        /\ err = "notify" => detectChanges(items, database) = actions

C3_Witness ==
    /\ pc = "idle" /\ err = "notify"
    /\ Len(actions) = 3
    /\ sends = <<[k |-> 1, ok |-> TRUE], [k |-> 2, ok |-> FALSE]>>
    /\ database # EmptyDatabase


\* The ids of the items of a list.
IdsOf(list) == {list[n].id : n \in 1..Len(list)}

\* The { title, type } projection of an item.
RecordOf(item) == [title |-> item.title, type |-> item.type]

\* Each item of the list has its own record, holding its title and type, and
\* there is no other record.
OneRecordPerItem(database_, list) ==
    /\ DOMAIN database_ = IdsOf(list)
    /\ Cardinality(DOMAIN database_) = Len(list)
    /\ \A n \in 1..Len(list) : database_[list[n].id] = RecordOf(list[n])

\* C4 (as claimed): a check that began with an empty database file sends no
\* notification and fetches no thumbnail, whatever the number of items, and
\* when it has completed the database holds exactly one record per current
\* item, with its title and type.
C4_Original ==
    /\ (started /\ dbAtStart = EmptyDatabase) => (sends = <<>> /\ thumbs = {})
    /\ (started /\ dbAtStart = EmptyDatabase /\ pc = "idle" /\ err = "none")
          => OneRecordPerItem(database, items)

\* The snapshot of a list: for each id, the record of the last item with it.
SnapshotOf(list) ==
    [id \in IdsOf(list) |->
        RecordOf(list[CHOOSE n \in 1..Len(list) :
                         /\ list[n].id = id
                         /\ \A m \in (n + 1)..Len(list) : list[m].id # id])]

\* A check that has returned without an error, the database file non-empty
\* when it began.
CompletedNonBootstrap ==
    started /\ pc = "idle" /\ err = "none" /\ dbAtStart # EmptyDatabase

\* C5 (as claimed): after a successful check that began with a non-empty
\* database, with any number of detected actions, zero included, the database
\* is the snapshot of the current items.
C5_Original ==
    CompletedNonBootstrap => database = SnapshotOf(items)

\* C5 (as amended): after such a check that detected at least one action the
\* database is the snapshot of the current items; one that detected no action
\* has written nothing and the database is as it was when the check began.
C5_CommitsWhenActions ==
    CompletedNonBootstrap =>
        IF Len(actions) > 0
        THEN wrote /\ database = SnapshotOf(items)
        ELSE ~wrote /\ database = dbAtStart

C5_Witness ==
    /\ CompletedNonBootstrap
    /\ Len(actions) > 0
    /\ Len(sends) = Len(actions)
    /\ DOMAIN dbAtStart \ DOMAIN database # {}

\* C6 (as claimed): once a check has written the database, the database is the
\* { title, type } projection of the current items and nothing else: every item
\* is recorded under its id with its title and type, ids not listed are absent,
\* and an item reported as upgraded to video is recorded as video.
C6_Original ==
    wrote =>
        /\ DOMAIN database = IdsOf(items)
        /\ \A n \in 1..Len(items) : database[items[n].id] = RecordOf(items[n])
        /\ \A n \in 1..Len(actions) :
              actions[n].type = EVENT_UPDATE =>
                  database[actions[n].data.id].type = CONTENT_VIDEO

\* C10 (as claimed): no error leaves check(): no check() promise is rejected
\* and the process stays able to start the next check.
C10_Original ==
    ~escaped /\ proc = "running"

\* ----------------------------------- properties of detectChanges alone

\* Number of positions of a sequence holding a value.
Occurrences(seq, x) == Cardinality({n \in 1..Len(seq) : seq[n] = x})

\* The stored record of the item says text and the item is a video.
TextToVideo(item, database_) ==
    /\ item.id \in DOMAIN database_
    /\ database_[item.id].type = CONTENT_TEXT
    /\ item.type = CONTENT_VIDEO

C8_AllNewOnEmpty ==
    (pc = "diffed" /\ db = EmptyDatabase) =>
        /\ Len(actions) = Len(items)
        /\ \A n \in 1..Len(items) : actions[n] = [type |-> EVENT_NEW, data |-> items[n]]

C8_Witness ==
    /\ pc = "diffed" /\ db = EmptyDatabase
    /\ Len(items) = 3
    /\ items[1].id = items[3].id
    /\ items[1] # items[3]

\* C9: the items carried by the actions are a subsequence of the item list, in
\* the same relative order, each item giving at most one action.
C9_OrderPreserved ==
    pc = "diffed" =>
        \E f \in [1..Len(actions) -> 1..Len(items)] :
            /\ \A m, n \in 1..Len(actions) : m < n => f[m] < f[n]
            /\ \A n \in 1..Len(actions) : actions[n].data = items[f[n]]

C9_Witness ==
    /\ pc = "diffed"
    /\ Len(items) = 3 /\ Len(actions) = 2
    /\ actions[1].data = items[1]
    /\ actions[2].data = items[3]
    /\ items[1] # items[3]
    /\ items[2] # items[1] /\ items[2] # items[3]

\* ------------------------------------------------- properties of dispatch

\* The first n sends were made for the actions 1..n in that order and each
\* was answered with success.
SentInOrder(n) ==
    /\ Len(sends) = n
    /\ \A m \in 1..n : sends[m] = [k |-> m, ok |-> TRUE]

\* C16: processActions handles the actions one after the other in their
\* order: when the lookup or the send of action i is about to start, the sends
\* of actions 1..i-1, and no other, have completed with success and no
\* thumbnail was looked up for a later action; when send i starts, the lookup
\* for action i (made if it is a video) is over; sends are numbered in order,
\* and nothing of the check is in flight besides the one step it awaits.
C16_StrictlySequential ==
    /\ pc = "dispatch" => SentInOrder(i - 1) /\ thumbs \subseteq 1..(i - 1)
    /\ pc = "send" =>
          /\ i \in 1..Len(actions)
          /\ SentInOrder(i - 1)
          /\ thumbs \subseteq 1..i
          /\ i \in thumbs <=> actions[i].data.type = CONTENT_VIDEO
    /\ \A n \in 1..Len(sends) : sends[n].k = n
    /\ Len(sends) <= Len(actions)

C16_Witness ==
    /\ pc = "send" /\ i = 3
    /\ Len(actions) = 3
    /\ thumbs = {1, 3}
    /\ actions[2].data.type = CONTENT_QUIZ

\* C17: the lookup of a thumbnail is made for video actions only and never
\* ends the check: whatever its outcome the send of that action follows; the
\* image sent is the thumbnail when the lookup returned one and the default
\* image when it returned null or was not made.
C17_ThumbnailNeverFatal ==
    /\ \A n \in thumbs : n \in 1..Len(actions) /\ actions[n].data.type = CONTENT_VIDEO
    /\ err \in {"none", "launch", "auth", "extract", "notify", "storage"}
    /\ \A outcome \in ThumbnailOutcomes :
          extractThumbnail(outcome) \in {"thumbnail", "null"}
    /\ (pc = "send" \/ Len(sends) > 0) =>
          /\ thumbnail = "none" <=> actions[Len(sends) + (IF pc = "send" THEN 1 ELSE 0)].data.type # CONTENT_VIDEO
          /\ image = IF thumbnail = "thumbnail" THEN "thumbnail" ELSE "default"
    /\ (pc = "dispatch" /\ i <= Len(actions)) => ENABLED PrepareAction
    /\ pc = "send" => ENABLED SendOk

C17_Witness ==
    /\ pc = "idle" /\ err = "none" /\ wrote
    /\ Len(sends) = 3
    /\ thumbs = {1, 3}
    /\ thumbnail = "null" /\ image = "default"

\* ------------------------------------------- properties of authentication

\* ensureAuthenticated has run in this check (it either probed the session
\* or went to login).
AuthRan == auth.probed \/ auth.logins > 0

\* ensureAuthenticated is returning without an error.
AuthReturned == pc = "authenticated"

\* What C14 says whatever decides the login: at most one login, and with
\* cookies that pass the probe none and no write of the cookie file; after
\* a return without error the page is on the course page, session authenticated.
AuthOutcome ==
    /\ auth.logins <= 1
    /\ (auth.loaded /\ auth.valid) =>
          auth.logins = 0 /\ ~auth.saved /\ cookiesFile = auth.before
    /\ AuthReturned => auth.location = "content" /\ auth.session

C15_RejectedLoginIsFatal ==
    auth.login = "rejected" =>
        /\ err = "auth"
        /\ pc \in {"catch", "finally", "idle"}
        /\ auth.logins = 1
        /\ items = <<>> /\ actions = <<>> /\ sends = <<>> /\ thumbs = {}
        /\ ~CatalogWritten
        /\ ~auth.saved /\ cookiesFile = auth.before

C15_Witness ==
    /\ auth.login = "rejected" /\ pc = "idle"
    /\ auth.before /\ auth.probed /\ ~auth.valid
    /\ browser = "closed"
    /\ database # EmptyDatabase

\* -------------------------------------------------- properties of storage

\* The check has read the database (it got past readJSON and detectChanges).
ReadDone ==
    \/ pc \in {"dispatch", "send", "write"}
    \/ pc \in {"catch", "finally", "idle"} /\ started /\ err \in {"none", "storage"}

\* The read of a non-empty database file failed in this check: it got {}.
ReadFailed == ReadDone /\ db = EmptyDatabase /\ dbAtStart # EmptyDatabase

\* A failed write: the check ends with the error, the write not completed; the
\* file is as it was or, the write having been interrupted, reads as {}.
WriteFailureEndsCheck ==
    err = "storage" =>
        /\ Len(actions) > 0
        /\ ~wrote
        /\ pc \in {"catch", "finally", "idle"}
        /\ database \in {dbAtStart, EmptyDatabase}

\* A check whose read failed goes on as a first run: every item is a new
\* action, nothing is sent, no thumbnail looked up, no error from the read.
ReadFailureIsFirstRun ==
    ReadFailed =>
        /\ isFirstRun(db)
        /\ Len(actions) = Len(items)
        /\ \A n \in 1..Len(actions) : actions[n] = [type |-> EVENT_NEW, data |-> items[n]]
        /\ sends = <<>> /\ thumbs = {}

\* C18 (as amended): a failed read of the database does not end the check,
\* which goes on as a first run and sends nothing; when it has returned
\* without error and the listing had at least one item, the database file is
\* the snapshot of the listing, and with an empty listing nothing was written
\* and the file is as before; a failed write ends the check with the error.
C18_ReadFailureBootstraps ==
    /\ ReadFailureIsFirstRun
    /\ (ReadFailed /\ pc = "idle" /\ err = "none") =>
          IF Len(items) > 0
          THEN wrote /\ database = SnapshotOf(items)
          ELSE ~wrote /\ database = dbAtStart
    /\ WriteFailureEndsCheck

\* C18 (as claimed): the same, the file being the snapshot of the listing
\* after every such check that returned without error.
C18_Original ==
    /\ ReadFailureIsFirstRun
    /\ (ReadFailed /\ pc = "idle" /\ err = "none") =>
          wrote /\ database = SnapshotOf(items)
    /\ WriteFailureEndsCheck

C18_Witness ==
    /\ ReadFailed /\ pc = "idle" /\ err = "none"
    /\ wrote
    /\ Len(items) = 3
    /\ database # dbAtStart
    /\ items[1].type = CONTENT_VIDEO

\* ------------------------------------- properties of overlapping checks

\* The checks in flight.
InFlight == {c \in Slots : checks[c].pc # "idle"}

\* C11 (as claimed): a browser launched by a check that has returned is
\* closed: no browser stays open once the check that launched it is over.
C11_Original ==
    \A h \in 1..Len(handles) : handles[h].over => ~handles[h].open

\* C12 (as claimed): at most one check is in flight at any time.
C12_Original ==
    Cardinality(InFlight) <= 1

\* ---------------------------------------------------- properties of startup

\* C13 (as claimed): with a required variable missing the process exits and no
\* check is started, and once a check has been started every value of CONFIG
\* read from the environment is defined.
C13_Original ==
    /\ missing(env) # {} => ~started
    /\ started => \A k \in DOMAIN CONFIG(env) : CONFIG(env)[k]

\* --------------------------------------------------- properties of the scan

\* The characters of the href from position a to position b.
Slice(href, a, b) == [k \in 1..(b - a + 1) |-> href[a + k - 1]]

\* id is a maximal run of digits of the href that begins at position a.
RunAt(href, a, id) ==
    /\ Len(id) >= 1
    /\ a + Len(id) - 1 <= Len(href)
    /\ Slice(href, a, a + Len(id) - 1) = id
    /\ \A k \in 1..Len(id) : id[k] \in Digits
    /\ (a + Len(id) <= Len(href)) => href[a + Len(id)] \notin Digits

\* Position a is where the first run of digits of the href begins.
FirstDigit(href, a) ==
    /\ a \in 1..Len(href) /\ href[a] \in Digits
    /\ \A k \in 1..(a - 1) : href[k] \notin Digits

\* Position a is where the first run of digits that follows a slash begins.
FirstDigitAfterSlash(href, a) ==
    /\ a \in 2..Len(href) /\ href[a] \in Digits /\ href[a - 1] = "/"
    /\ \A k \in 2..(a - 1) : ~(href[k] \in Digits /\ href[k - 1] = "/")

\* The links with an href that has a digit, in document order.
WithDigit == SelectSeq(nodes, LAMBDA n : n.has /\ \E a \in 1..Len(n.href) : FirstDigit(n.href, a))

\* The links with an href that has a digit straight after a slash.
WithDigitAfterSlash ==
    SelectSeq(nodes, LAMBDA n : n.has /\ \E a \in 1..Len(n.href) : FirstDigitAfterSlash(n.href, a))

C21_Original ==
    pc = "scanned" =>
        \A m, n \in 1..Len(items) : m # n => items[m].id # items[n].id

\* ------------------------------- properties of detection after a commit

\* C22 (as claimed): against the database that updateDatabase builds from a
\* list, detectChanges over that same list yields no action.
C22_Original ==
    (pc = "diffed" /\ db = updateDatabase(items)) => actions = <<>>

====
